---- MODULE Spec2Model ----
(***************************************************************************)
(* A model of deen_api/client.py: ImaniroDeenAPIClient, its two public     *)
(* calls (get_hadiths, check_status), the request builder and the          *)
(* response interpreter.  The client is synchronous and single-threaded:   *)
(* every call is one atomic step that takes the caller's arguments and     *)
(* what the HTTP transport answers, and leaves the requests it sent and    *)
(* the value or exception it hands back.                                   *)
(*                                                                         *)
(* Python values: Optional[str] is None (<<>>) or Some(v) (<<v>>); the     *)
(* same shape stands for an argument the caller leaves out.  A dict is a   *)
(* function from its keys.  A string built by an f-string is a record of   *)
(* its template and of the values formatted into it.  A URL is a sequence *)
(* of "/" characters and slash-free pieces.                                *)
(***************************************************************************)
EXTENDS Integers, Sequences, FiniteSets, TLC

VARIABLES
    init_args,        \* the arguments __init__ was called with
    api_key,          \* self.api_key
    base_url,         \* self.base_url
    session_headers,  \* self.session.headers
    call,             \* the last call: the operation, its arguments, the transport's answer
    sent,             \* the requests the last call handed to the transport, in order
    result,           \* what the last call gave its caller: a return value or an exception
    calls,            \* calls made so far
    valid_searches,   \* get_hadiths calls so far whose max_limit was within the limits
    search_requests   \* requests get_hadiths calls handed to the transport so far

vars == <<init_args, api_key, base_url, session_headers, call, sent, result,
          calls, valid_searches, search_requests>>

config == <<init_args, api_key, base_url, session_headers>>

(***************************************************************************)
(* Bounds of the model.                                                    *)
(***************************************************************************)
MaxCalls == 2      \* calls in one run of the client
MaxData == 2       \* records in a response envelope's data list
MaxUrlLen == 2     \* characters of a base URL handed to the constructor

(***************************************************************************)
(* Python values.                                                          *)
(***************************************************************************)
None == <<>>
Some(v) == <<v>>
EmptyDict == [k \in {} |-> 0]
Put(d, k, v) == [j \in DOMAIN d \cup {k} |-> IF j = k THEN v ELSE d[j]]

Return(v) == [kind |-> "return", value |-> v]
Raise(type, msg) == [kind |-> "raise", type |-> type, msg |-> msg]
Text(s) == [template |-> s]

\* dict.update: every key of other is written over d
UpdateNamedLast(d, other) ==
    [k \in DOMAIN d \cup DOMAIN other |-> IF k \in DOMAIN d THEN d[k] ELSE other[k]]

Update(d, other) ==
    [k \in DOMAIN d \cup DOMAIN other |-> IF k \in DOMAIN other THEN other[k] ELSE d[k]]

\* str.rstrip('/'): drop every trailing slash
RECURSIVE Rstrip(_)
Rstrip(s) ==
    IF Len(s) > 0 /\ s[Len(s)] = "/" THEN Rstrip(SubSeq(s, 1, Len(s) - 1)) ELSE s

\* f"{self.base_url}/{endpoint}"
Url(base, endpoint) == base \o <<"/", endpoint>>

(***************************************************************************)
(* The exception classes.  requests.exceptions.RequestException is the     *)
(* base of what the transport raises; from requests 2.27 on the error of   *)
(* Response.json() is one of them, before it is a plain ValueError.  The   *)
(* client's own exceptions (deen_api/exceptions.py) derive from Exception. *)
(***************************************************************************)
TransportErrors == {"ConnectionError", "Timeout", "ChunkedEncodingError"}
JSONErrors == {"requests.exceptions.JSONDecodeError", "json.JSONDecodeError"}
ClientErrors == {"DeenAPIError", "AuthenticationError", "InsufficientBalanceError",
                 "NotFoundError", "RateLimitError", "ServerError"}

IsRequestException(type) ==
    type \in TransportErrors \cup {"requests.exceptions.JSONDecodeError"}

(***************************************************************************)
(* The data model (deen_api/models.py).                                    *)
(***************************************************************************)
\* Hadith.from_dict: one record of the envelope, its keys renamed to the fields
Hadith_from_dict(item) ==
    [book |-> item.book, hadith_number |-> item.hadithNumber,
     narrator |-> item.narrator, category |-> item.category,
     authenticity |-> item.authenticity, language |-> item.language,
     text |-> item.text]

\* APIResponse.from_dict: the envelope, exposing the record list as .data
APIResponse_from_dict(d) == [data |-> d.data]

(***************************************************************************)
(* The transport's answer to a request: it raises (fail), or it returns a  *)
(* response with a status code and a body; Response.json() decodes the     *)
(* body or raises its decode error.                                        *)
(***************************************************************************)
Failure(type, desc) == [fail |-> TRUE, type |-> type, desc |-> Text(desc)]
Response(code, body) == [fail |-> FALSE, status_code |-> code, body |-> body]
JSON(v) == [valid |-> TRUE, value |-> v]
NotJSON(error) == [valid |-> FALSE, error |-> error]

response_json(response) ==
    IF response.body.valid
    THEN Return(response.body.value)
    ELSE Raise(response.body.error, Text("Expecting value"))

(***************************************************************************)
(* _handle_response                                                        *)
(***************************************************************************)
handle_response_403_as_401(response) ==
    IF response.status_code \in {401, 403}
    THEN Raise("AuthenticationError", Text("Invalid API key"))
    ELSE IF response.status_code = 402
    THEN Raise("InsufficientBalanceError", Text("Insufficient balance to process request"))
    ELSE IF response.status_code = 404
    THEN Raise("NotFoundError", Text("Resource not found"))
    ELSE IF response.status_code = 429
    THEN Raise("RateLimitError", Text("Rate limit exceeded"))
    ELSE IF response.status_code >= 500
    THEN Raise("ServerError", Text("Server error occurred"))
    ELSE IF response.status_code # 200
    THEN Raise("DeenAPIError", [template |-> "API error: {status_code} - {text}",
                                status_code |-> response.status_code,
                                text |-> response.body])
    ELSE response_json(response)

handle_response(response) ==
    IF response.status_code = 401
    THEN Raise("AuthenticationError", Text("Invalid API key"))
    ELSE IF response.status_code = 402
    THEN Raise("InsufficientBalanceError", Text("Insufficient balance to process request"))
    ELSE IF response.status_code = 404
    THEN Raise("NotFoundError", Text("Resource not found"))
    ELSE IF response.status_code = 429
    THEN Raise("RateLimitError", Text("Rate limit exceeded"))
    ELSE IF response.status_code >= 500
    THEN Raise("ServerError", Text("Server error occurred"))
    ELSE IF response.status_code # 200
    THEN Raise("DeenAPIError", [template |-> "API error: {status_code} - {text}",
                                status_code |-> response.status_code,
                                text |-> response.body])
    ELSE response_json(response)

(***************************************************************************)
(* _make_request: one POST, the response interpreted, and a                *)
(* RequestException raised anywhere in the try block re-raised as          *)
(* DeenAPIError.  The value is the requests sent and the outcome.          *)
(***************************************************************************)
PostRequest(self, endpoint, params) ==
    [method |-> "POST",
     url |-> Url(self.base_url, endpoint),
     headers |-> self.session_headers,
     json |-> IF DOMAIN params # {} THEN params ELSE EmptyDict]

\* the try block's own outcome, before the except clause
TryPost(t) ==
    IF t.fail
    THEN Raise(t.type, t.desc)
    ELSE LET data == handle_response(t)
         IN  IF data.kind = "return"
             THEN Return(APIResponse_from_dict(data.value))
             ELSE data

ExceptRequestException(outcome, template) ==
    IF outcome.kind = "raise" /\ IsRequestException(outcome.type)
    THEN Raise("DeenAPIError", [template |-> template, e |-> outcome.msg])
    ELSE outcome

make_request_wrap_all(self, endpoint, params, t) ==
    LET tried == TryPost(t)
    IN  [sent |-> <<PostRequest(self, endpoint, params)>>,
         outcome |-> IF tried.kind = "raise"
                     THEN Raise("DeenAPIError",
                                [template |-> "Request failed: {e}", e |-> tried.msg])
                     ELSE tried]

make_request_retry(self, endpoint, params, t) ==
    LET request == PostRequest(self, endpoint, params)
    IN  [sent |-> IF t.fail THEN <<request, request>> ELSE <<request>>,
         outcome |-> ExceptRequestException(TryPost(t), "Request failed: {e}")]

make_request(self, endpoint, params, t) ==
    [sent |-> <<PostRequest(self, endpoint, params)>>,
     outcome |-> ExceptRequestException(TryPost(t), "Request failed: {e}")]

(***************************************************************************)
(* get_hadiths                                                             *)
(***************************************************************************)
\* the signature's defaults: what the body sees for what the caller supplied
Bind(supplied) ==
    [book |-> supplied.book,
     hadith_number |-> supplied.hadith_number,
     narrator |-> supplied.narrator,
     category |-> supplied.category,
     authenticity |-> supplied.authenticity,
     language |-> IF supplied.language = None THEN "English" ELSE supplied.language[1],
     max_limit |-> IF supplied.max_limit = None THEN 1 ELSE supplied.max_limit[1]]

\* "if x is not None: params[key] = x"
PutIfTruthy(params, key, x) ==
    IF x # None /\ x # Some("") THEN Put(params, key, x[1]) ELSE params

PutIfNotNone(params, key, x) ==
    IF x # None THEN Put(params, key, x[1]) ELSE params

\* the params dictionary before the extra keyword arguments
NamedParams(a) ==
    LET p1 == PutIfNotNone(EmptyDict, "book", a.book)
        p2 == PutIfNotNone(p1, "hadithNumber", a.hadith_number)
        p3 == PutIfNotNone(p2, "narrator", a.narrator)
        p4 == PutIfNotNone(p3, "category", a.category)
        p5 == PutIfNotNone(p4, "authenticity", a.authenticity)
        p6 == Put(p5, "language", a.language)
    IN  Put(p6, "maxLimit", a.max_limit)

BuildParams(a, kwargs) == Update(NamedParams(a), kwargs)

\* the two checks of max_limit: the exception raised, or None
ValidateOffByOne(max_limit) ==
    IF max_limit >= 500
    THEN Some(Raise("ValueError", Text("max_limit cannot exceed 500")))
    ELSE IF max_limit < 1
    THEN Some(Raise("ValueError", Text("max_limit must be at least 1")))
    ELSE None

Validate(max_limit) ==
    IF max_limit > 500
    THEN Some(Raise("ValueError", Text("max_limit cannot exceed 500")))
    ELSE IF max_limit < 1
    THEN Some(Raise("ValueError", Text("max_limit must be at least 1")))
    ELSE None

\* [Hadith.from_dict(item) for item in response.data]
RECURSIVE DecodeDistinct(_)
DecodeDistinct(data) ==
    IF data = <<>>
    THEN <<>>
    ELSE LET rest == DecodeDistinct(SubSeq(data, 1, Len(data) - 1))
             last == Hadith_from_dict(data[Len(data)])
         IN  IF \E i \in 1..Len(rest) : rest[i] = last THEN rest ELSE Append(rest, last)

DecodeAll(data) == [i \in 1..Len(data) |-> Hadith_from_dict(data[i])]

get_hadiths(self, supplied, kwargs, t) ==
    LET a == Bind(supplied)
        invalid == Validate(a.max_limit)
    IN  IF invalid # None
        THEN [sent |-> <<>>, outcome |-> invalid[1]]
        ELSE LET r == make_request(self, "hadiths", BuildParams(a, kwargs), t)
             IN  [sent |-> r.sent,
                  outcome |-> IF r.outcome.kind = "return"
                              THEN Return(DecodeAll(r.outcome.value.data))
                              ELSE r.outcome]

(***************************************************************************)
(* check_status                                                            *)
(***************************************************************************)
GetRequest(self) ==
    [method |-> "GET",
     url |-> Url(self.base_url, "status"),
     headers |-> self.session_headers]

check_status_typed(self, t) ==
    [sent |-> <<GetRequest(self)>>,
     outcome |-> ExceptRequestException(
                    IF t.fail THEN Raise(t.type, t.desc) ELSE handle_response(t),
                    "Status check request failed: {e}")]

check_status(self, t) ==
    [sent |-> <<GetRequest(self)>>,
     outcome |-> ExceptRequestException(
                    IF t.fail
                    THEN Raise(t.type, t.desc)
                    ELSE IF t.status_code = 200
                    THEN response_json(t)
                    ELSE Raise("DeenAPIError",
                               [template |-> "Status check failed: {status_code}",
                                status_code |-> t.status_code]),
                    "Status check request failed: {e}")]

(***************************************************************************)
(* __init__                                                                *)
(***************************************************************************)
ClientInitNoStrip(key, url) ==
    [api_key |-> key,
     base_url |-> url,
     session_headers |-> Put(Put(EmptyDict, "Content-Type", "application/json"),
                             "X-API-Key", key)]

ClientInit(key, url) ==
    [api_key |-> key,
     base_url |-> Rstrip(url),
     session_headers |-> Put(Put(EmptyDict, "Content-Type", "application/json"),
                             "X-API-Key", key)]

\* the client as the methods see it
Self == [api_key |-> api_key, base_url |-> base_url, session_headers |-> session_headers]

(***************************************************************************)
(* The inputs the runs draw from.                                          *)
(***************************************************************************)
\* base_url's default value; a URL is a sequence of "/" and slash-free pieces
DefaultBaseUrl == <<"https://deen-api.imaniro.com", "/", "api", "/", "v1">>

ApiKeys == {"key-1", "key-2"}

RECURSIVE SeqsUpTo(_, _)
SeqsUpTo(S, n) ==
    IF n = 0
    THEN {<<>>}
    ELSE LET shorter == SeqsUpTo(S, n - 1)
         IN  shorter \cup {Append(s, x) : s \in shorter, x \in S}

BaseUrls == SeqsUpTo({"host", "/"}, MaxUrlLen) \ {<<>>}

DefaultSupplied ==
    [book |-> None, hadith_number |-> None, narrator |-> None, category |-> None,
     authenticity |-> None, language |-> None, max_limit |-> None]

\* every combination of filters left out or given (book: given empty)
Filters ==
    [book : {None, Some("")},
     hadith_number : {None, Some("1")},
     narrator : {None, Some("Umar")},
     category : {None, Some("prayer")},
     authenticity : {None, Some("Sahih")}]

\* language and max_limit left out or given, the limits around the two checks
LanguageAndLimit ==
    {[language |-> None, max_limit |-> None],
     [language |-> Some("Arabic"), max_limit |-> Some(500)],
     [language |-> None, max_limit |-> Some(0)],
     [language |-> Some("Arabic"), max_limit |-> Some(501)]}

SuppliedAll ==
    {[book |-> f.book, hadith_number |-> f.hadith_number, narrator |-> f.narrator,
      category |-> f.category, authenticity |-> f.authenticity,
      language |-> l.language, max_limit |-> l.max_limit] :
        f \in Filters, l \in LanguageAndLimit}

SuppliedFew ==
    {DefaultSupplied,
     [DefaultSupplied EXCEPT !.max_limit = Some(0)],
     [DefaultSupplied EXCEPT !.book = Some("Sahih al-Bukhari"), !.max_limit = Some(500)]}

\* **kwargs: Python binds a keyword that names a parameter to that parameter, so
\* the keys left in kwargs are never book, hadith_number, narrator, category,
\* authenticity, language or max_limit
KwargsAll ==
    {EmptyDict,
     Put(EmptyDict, "maxLimit", 501),
     Put(Put(EmptyDict, "hadithNumber", "7"), "page", "2")}

KwargsNone == {EmptyDict}

Records ==
    {[book |-> "Sahih al-Bukhari", hadithNumber |-> "1", narrator |-> "Umar",
      category |-> "intentions", authenticity |-> "Sahih", language |-> "English",
      text |-> "..."],
     [book |-> "Sahih Muslim", hadithNumber |-> "8", narrator |-> "Abu Hurayrah",
      category |-> "faith", authenticity |-> "Sahih", language |-> "English",
      text |-> "...."]}

Envelopes == {[data |-> d] : d \in SeqsUpTo(Records, MaxData)}

StatusPayloads == {[status |-> "ok", version |-> "1"], [status |-> "degraded"]}

StatusCodes == {100, 200, 201, 301, 401, 402, 403, 404, 429, 499, 500, 503}

Failures ==
    {Failure("ConnectionError", "Connection refused"),
     Failure("Timeout", "Read timed out"),
     Failure("ChunkedEncodingError", "Connection broken: IncompleteRead")}

Bodies(values) == {JSON(v) : v \in values} \cup {NotJSON(e) : e \in JSONErrors}

SearchTransportsAll ==
    Failures \cup {Response(c, b) : c \in StatusCodes, b \in Bodies(Envelopes)}

StatusTransportsAll ==
    Failures \cup {Response(c, b) : c \in StatusCodes, b \in Bodies(StatusPayloads)}

SearchTransportsFew ==
    {Failure("Timeout", "Read timed out"),
     Response(200, JSON([data |-> <<>>]))}

StatusTransportsFew ==
    {Failure("Timeout", "Read timed out"),
     Response(200, JSON([status |-> "ok"]))}

WithinLimits(supplied) == Bind(supplied).max_limit \in 1..500

(***************************************************************************)
(* The state machine: the client is constructed, then called.              *)
(***************************************************************************)
InitWith(keys, urls) ==
    /\ init_args \in [api_key : keys, base_url : urls]
    /\ LET self == ClientInit(init_args.api_key, init_args.base_url)
       IN  /\ api_key = self.api_key
           /\ base_url = self.base_url
           /\ session_headers = self.session_headers
    /\ call = [op |-> "__init__"]
    /\ sent = <<>>
    /\ result = Return(None)
    /\ calls = 0
    /\ valid_searches = 0
    /\ search_requests = 0

GetHadiths(Supplied, Kwargs, Transports) ==
    /\ calls < MaxCalls
    /\ \E supplied \in Supplied, kwargs \in Kwargs, t \in Transports :
          LET r == get_hadiths(Self, supplied, kwargs, t)
          IN  /\ call' = [op |-> "get_hadiths", supplied |-> supplied,
                          kwargs |-> kwargs, transport |-> t]
              /\ sent' = r.sent
              /\ result' = r.outcome
              /\ valid_searches' = valid_searches + (IF WithinLimits(supplied) THEN 1 ELSE 0)
              /\ search_requests' = search_requests + Len(r.sent)
    /\ calls' = calls + 1
    /\ UNCHANGED config

CheckStatus(Transports) ==
    /\ calls < MaxCalls
    /\ \E t \in Transports :
          LET r == check_status(Self, t)
          IN  /\ call' = [op |-> "check_status", transport |-> t]
              /\ sent' = r.sent
              /\ result' = r.outcome
    /\ calls' = calls + 1
    /\ UNCHANGED <<config, valid_searches, search_requests>>

\* every answer of the transport, a few argument lists
Init == InitWith({"key-1"}, {DefaultBaseUrl})
Next ==
    \/ GetHadiths(SuppliedFew, KwargsNone, SearchTransportsAll)
    \/ CheckStatus(StatusTransportsAll)
Spec == Init /\ [][Next]_vars

\* every argument list, a few answers of the transport
NextRequest ==
    \/ GetHadiths(SuppliedAll, KwargsAll, {Response(200, JSON([data |-> <<>>]))})
    \/ CheckStatus({Response(200, JSON([status |-> "ok"]))})
SpecRequest == Init /\ [][NextRequest]_vars

\* every constructor argument, a few calls
InitConfig == InitWith(ApiKeys, BaseUrls)
NextConfig ==
    \/ GetHadiths(SuppliedFew, KwargsNone, SearchTransportsFew)
    \/ CheckStatus(StatusTransportsFew)
SpecConfig == InitConfig /\ [][NextConfig]_vars

(***************************************************************************)
(* What the claims speak of, read off the last call.                       *)
(***************************************************************************)
IsSearch == call.op = "get_hadiths"
IsStatus == call.op = "check_status"
Raised(type) == result.kind = "raise" /\ result.type = type
Returned == result.kind = "return"

\* the maxLimit the caller asked for: the argument, or the default of 1
MaxLimitArg ==
    IF call.supplied.max_limit = None THEN 1 ELSE call.supplied.max_limit[1]

LanguageArg ==
    IF call.supplied.language = None THEN "English" ELSE call.supplied.language[1]

ValidSearch == IsSearch /\ MaxLimitArg >= 1 /\ MaxLimitArg <= 500
Answered == ~call.transport.fail
Status == call.transport.status_code

\* the generic API error whose message carries the status code
GenericWithCode(code) ==
    /\ Raised("DeenAPIError")
    /\ "status_code" \in DOMAIN result.msg
    /\ result.msg.status_code = code

\* the generic API error whose message embeds the description of a failure
GenericEmbedding(desc) ==
    /\ Raised("DeenAPIError")
    /\ "e" \in DOMAIN result.msg
    /\ result.msg.e = desc

\* C1: a search with maxLimit < 1 or maxLimit > 500 fails with ValueError and sends
\* no request; with 1 <= maxLimit <= 500 it passes the validation and sends a
\* request; whatever the other arguments and the calls before it.
C1_LimitValidated ==
    IsSearch =>
        /\ (MaxLimitArg < 1 \/ MaxLimitArg > 500) => Raised("ValueError") /\ sent = <<>>
        /\ (MaxLimitArg >= 1 /\ MaxLimitArg <= 500) =>
               Len(sent) >= 1 /\ ~Raised("ValueError")

C1_Witness ==
    /\ IsSearch /\ calls = 2
    /\ MaxLimitArg = 501
    /\ call.kwargs # EmptyDict /\ call.supplied.book # None
    /\ Raised("ValueError") /\ sent = <<>>

\* C2: the outcome of a search the transport answered follows the status code
\* alone: 401, 402, 404, 429 and >= 500 raise their own error, every other code
\* but 200 raises the generic error carrying the code, and only 200 decodes the
\* body; no list of Hadith is returned for a code other than 200.
C2_StatusDecides ==
    (ValidSearch /\ Answered) =>
        /\ Status = 401 => Raised("AuthenticationError")
        /\ Status = 402 => Raised("InsufficientBalanceError")
        /\ Status = 404 => Raised("NotFoundError")
        /\ Status = 429 => Raised("RateLimitError")
        /\ Status >= 500 => Raised("ServerError")
        /\ (Status \notin {200, 401, 402, 404, 429} /\ Status < 500) =>
               GenericWithCode(Status)
        /\ Returned => Status = 200
        /\ (result.kind = "raise" /\ (result.type \in JSONErrors \/ "e" \in DOMAIN result.msg))
               => Status = 200

C2_Witness ==
    /\ ValidSearch /\ Answered /\ Status = 403
    /\ call.transport.body.valid /\ Len(call.transport.body.value.data) = 2
    /\ GenericWithCode(403)

\* C3: without extra parameters the request body's keys are language, maxLimit
\* and the keys of the filters that were given, each with the caller's value;
\* with nothing supplied the body is {language: English, maxLimit: 1}.
C3_BodyOfNamedFields ==
    (IsSearch /\ sent # <<>> /\ call.kwargs = EmptyDict) =>
        LET body == sent[1].json
            a == call.supplied
        IN  /\ DOMAIN body = {"language", "maxLimit"}
                    \cup (IF a.book # None THEN {"book"} ELSE {})
                    \cup (IF a.hadith_number # None THEN {"hadithNumber"} ELSE {})
                    \cup (IF a.narrator # None THEN {"narrator"} ELSE {})
                    \cup (IF a.category # None THEN {"category"} ELSE {})
                    \cup (IF a.authenticity # None THEN {"authenticity"} ELSE {})
            /\ body["language"] = LanguageArg
            /\ body["maxLimit"] = MaxLimitArg
            /\ a.book # None => body["book"] = a.book[1]
            /\ a.hadith_number # None => body["hadithNumber"] = a.hadith_number[1]
            /\ a.narrator # None => body["narrator"] = a.narrator[1]
            /\ a.category # None => body["category"] = a.category[1]
            /\ a.authenticity # None => body["authenticity"] = a.authenticity[1]
            /\ a = DefaultSupplied =>
                   /\ DOMAIN body = {"language", "maxLimit"}
                   /\ body["language"] = "English"
                   /\ body["maxLimit"] = 1

C3_Witness ==
    /\ IsSearch /\ sent # <<>> /\ call.kwargs = EmptyDict
    /\ call.supplied.book = Some("") /\ call.supplied.narrator = None
    /\ call.supplied.category # None
    /\ DOMAIN sent[1].json = {"language", "maxLimit", "book", "category"}

\* the value a named field writes under a key of the body
NamedValue(k) ==
    CASE k = "book" -> call.supplied.book[1]
      [] k = "hadithNumber" -> call.supplied.hadith_number[1]
      [] k = "narrator" -> call.supplied.narrator[1]
      [] k = "category" -> call.supplied.category[1]
      [] k = "authenticity" -> call.supplied.authenticity[1]
      [] k = "language" -> LanguageArg
      [] k = "maxLimit" -> MaxLimitArg

\* C4: the extra parameters are merged into the body last: every key of theirs
\* holds their value, also when a named field wrote the same key, and every
\* other key keeps the value of its named field.
C4_ExtraMergedLast ==
    (IsSearch /\ sent # <<>>) =>
        LET body == sent[1].json
        IN  /\ DOMAIN call.kwargs \subseteq DOMAIN body
            /\ \A k \in DOMAIN call.kwargs : body[k] = call.kwargs[k]
            /\ \A k \in DOMAIN body \ DOMAIN call.kwargs : body[k] = NamedValue(k)

C4_Witness ==
    /\ IsSearch /\ sent # <<>>
    /\ call.supplied.hadith_number = Some("1")
    /\ "hadithNumber" \in DOMAIN call.kwargs /\ call.kwargs["hadithNumber"] = "7"
    /\ sent[1].json["hadithNumber"] = "7"
    /\ sent[1].json["page"] = "2"
    /\ sent[1].json["language"] = "Arabic"

\* C5: a search that passes the validation sends exactly one request, whether
\* it ends in a result, a status-code error or a transport failure; after n
\* such searches the searches have sent n requests.
C5_OneRequestPerSearch ==
    /\ search_requests = valid_searches
    /\ ValidSearch => Len(sent) = 1
    /\ (IsSearch /\ ~ValidSearch) => Len(sent) = 0

C5_Witness ==
    /\ ValidSearch /\ call.transport.fail
    /\ calls = 2 /\ valid_searches = 2 /\ search_requests = 2
    /\ result.kind = "raise"

\* C6: a search that returns, returns one Hadith per element of the envelope's
\* data list, the i-th decoded from the i-th element: nothing is reordered,
\* dropped or merged; and a 200 response with an envelope does return.
C6_OneHadithPerRecord ==
    /\ (ValidSearch /\ Answered /\ Status = 200 /\ call.transport.body.valid) => Returned
    /\ (IsSearch /\ Returned) =>
           LET data == call.transport.body.value.data
               hadiths == result.value
           IN  /\ Len(hadiths) = Len(data)
               /\ \A i \in 1..Len(data) :
                     /\ hadiths[i].book = data[i].book
                     /\ hadiths[i].hadith_number = data[i].hadithNumber
                     /\ hadiths[i].narrator = data[i].narrator
                     /\ hadiths[i].category = data[i].category
                     /\ hadiths[i].authenticity = data[i].authenticity
                     /\ hadiths[i].language = data[i].language
                     /\ hadiths[i].text = data[i].text

C6_Witness ==
    /\ IsSearch /\ Returned
    /\ call.supplied.book # None
    /\ Len(call.transport.body.value.data) = 2
    /\ call.transport.body.value.data[1] = call.transport.body.value.data[2]
    /\ Len(result.value) = 2

\* check_status handed back the decoded body of the response
ReturnedBody ==
    /\ Returned
    /\ call.transport.body.valid
    /\ result.value = call.transport.body.value

\* C7 as stated: check_status returns the decoded body if and only if the status
\* is 200, fails with the generic error carrying the code for every other status,
\* and with the generic error embedding the description on a transport failure.
C7_Original ==
    IsStatus =>
        /\ Answered => (ReturnedBody <=> Status = 200)
        /\ (Answered /\ Status # 200) => GenericWithCode(Status)
        /\ call.transport.fail => GenericEmbedding(call.transport.desc)

\* C7 amended: check_status returns the decoded body if and only if the status
\* is 200 and the body decodes as JSON (a 200 response whose body does not
\* decode raises); every other status fails with the generic error carrying the
\* code, never with a typed one; a transport failure fails with the generic
\* error embedding its description.
C7_StatusCheck ==
    IsStatus =>
        /\ Answered => (ReturnedBody <=> (Status = 200 /\ call.transport.body.valid))
        /\ (Answered /\ Status = 200 /\ ~call.transport.body.valid) => result.kind = "raise"
        /\ (Answered /\ Status # 200) => GenericWithCode(Status)
        /\ call.transport.fail => GenericEmbedding(call.transport.desc)

C7_Witness ==
    /\ IsStatus /\ Answered /\ Status = 200
    /\ ~call.transport.body.valid
    /\ result.kind = "raise"

\* C8: in a search a failure of the transport surfaces as the generic error
\* embedding the failure's description; the errors of the response interpreter
\* reach the caller with their own kind, not wrapped again; neither returns a
\* list of Hadith.
C8_TransportFailureWrapped ==
    ValidSearch =>
        /\ call.transport.fail => GenericEmbedding(call.transport.desc)
        /\ (Answered /\ Status # 200) =>
               /\ result.kind = "raise"
               /\ result.type \in ClientErrors
               /\ "e" \notin DOMAIN result.msg
               /\ (Status \in {401, 402, 404, 429} \/ Status >= 500)
                      => result.type # "DeenAPIError"

C8_Witness ==
    /\ ValidSearch /\ call.transport.fail
    /\ call.transport.type = "ConnectionError"
    /\ Raised("DeenAPIError")
    /\ result.msg.template = "Request failed: {e}"
    /\ result.msg.e = Text("Connection refused")

\* base is raw without its trailing slashes
Stripped(base, raw) ==
    \E n \in 0..Len(raw) :
        /\ base = SubSeq(raw, 1, n)
        /\ \A i \in (n + 1)..Len(raw) : raw[i] = "/"
        /\ n > 0 => raw[n] # "/"

\* C9: after any calls the API key and the base URL are those of the
\* construction (the base URL without its trailing slashes), and every request
\* sent is a POST to {base_url}/hadiths or a GET to {base_url}/status with the
\* header X-API-Key set to the configured key.
C9_ConfigurationFixed ==
    /\ api_key = init_args.api_key
    /\ Stripped(base_url, init_args.base_url)
    /\ \A i \in 1..Len(sent) :
          /\ \/ /\ sent[i].method = "POST"
                /\ sent[i].url = base_url \o <<"/", "hadiths">>
             \/ /\ sent[i].method = "GET"
                /\ sent[i].url = base_url \o <<"/", "status">>
          /\ sent[i].headers["X-API-Key"] = init_args.api_key

C9_Witness ==
    /\ calls = 2 /\ IsStatus
    /\ init_args.base_url = <<"host", "/">>
    /\ init_args.api_key = "key-2"
    /\ Len(sent) = 1
    /\ sent[1].url = <<"host", "/", "status">>

\* C10: in every search request that reaches the transport the body's maxLimit
\* is within 1..500, whatever the maxLimit argument and the extra parameters.
C10_BodyLimitInRange ==
    (IsSearch /\ sent # <<>>) =>
        sent[1].json["maxLimit"] >= 1 /\ sent[1].json["maxLimit"] <= 500

====
